---- MODULE Spec2Model ----
(***************************************************************************)
(* Model of azure/worker/bindings/meta.py: the converter registry kept by  *)
(* _ConverterMeta, the scalar TypedData decoder of _BaseConverter and the  *)
(* three dispatch functions.                                               *)
(*                                                                         *)
(* Python values are records [t, n, e, s]: t is type(x).__name__, n the    *)
(* integer payload and s the character payload (a str is the sequence of   *)
(* its characters).  A finite float is the decimal n / 10^e with no        *)
(* trailing zero in its fraction (n = 15, e = 1 is 1.5); inf and nan are   *)
(* floats whose s names them.  A call's outcome is a record that either    *)
(* returns a value or raises an exception.                                 *)
(***************************************************************************)
EXTENDS Integers, Sequences, FiniteSets, TLC

VARIABLES _check_py_type, _from_proto, _to_proto, successes, ncalls, last

vars == <<_check_py_type, _from_proto, _to_proto, successes, ncalls, last>>

(***************************************************************************)
(* Bounds of the model.                                                    *)
(***************************************************************************)
\* register calls (successful or not) in one behaviour
MaxRegisterCalls == 2
\* length of the generated str / json texts
MaxTextLen == 2

(***************************************************************************)
(* Python values.                                                          *)
(***************************************************************************)
PyInt(i) == [t |-> "int", n |-> i, e |-> 0, s |-> <<>>]
PyStr(chars) == [t |-> "str", n |-> 0, e |-> 0, s |-> chars]

RECURSIVE PyFloat(_, _)
PyFloat(mantissa, scale) ==
    IF scale > 0 /\ mantissa % 10 = 0
    THEN PyFloat(mantissa \div 10, scale - 1)
    ELSE [t |-> "float", n |-> mantissa, e |-> scale, s |-> <<>>]

PyInf == [t |-> "float", n |-> 1, e |-> 0, s |-> <<"i", "n", "f">>]
PyNegInf == [t |-> "float", n |-> -1, e |-> 0, s |-> <<"i", "n", "f">>]
PyNan == [t |-> "float", n |-> 0, e |-> 0, s |-> <<"n", "a", "n">>]
PyBool(b) == [t |-> "bool", n |-> IF b THEN 1 ELSE 0, e |-> 0, s |-> <<>>]
PyNone == [t |-> "NoneType", n |-> 0, e |-> 0, s |-> <<>>]
PyList(text) == [t |-> "list", n |-> 0, e |-> 0, s |-> text]
PyDict(text) == [t |-> "dict", n |-> 0, e |-> 0, s |-> text]
PyObject(typename) == [t |-> typename, n |-> 0, e |-> 0, s |-> <<>>]

IsFinite(x) == x.s = <<>>

\* issubclass for the builtin types: bool is a subclass of int.
IsSubclass(t, base) == t = base \/ (t = "bool" /\ base = "int")

(***************************************************************************)
(* Outcomes of a call.                                                     *)
(***************************************************************************)
Return(v) ==
    [kind |-> "return", exc |-> "", msg |-> "", context |-> <<>>,
     detail |-> <<>>, val |-> v]

Raise(exc, msg, context, detail) ==
    [kind |-> "raise", exc |-> exc, msg |-> msg, context |-> context,
     detail |-> detail, val |-> PyNone]

(***************************************************************************)
(* Text of numbers.                                                        *)
(***************************************************************************)
DigitChars == <<"0", "1", "2", "3", "4", "5", "6", "7", "8", "9">>

DigitSet == {DigitChars[i] : i \in 1..10}

DigitVal(c) == (CHOOSE i \in 1..10 : DigitChars[i] = c) - 1

IsDigits(chars) == chars # <<>> /\ \A i \in 1..Len(chars) : chars[i] \in DigitSet

RECURSIVE DigitsValue(_)
DigitsValue(chars) ==
    IF chars = <<>> THEN 0
    ELSE 10 * DigitsValue(SubSeq(chars, 1, Len(chars) - 1))
         + DigitVal(chars[Len(chars)])

RECURSIVE NatChars(_)
NatChars(i) ==
    IF i < 10 THEN <<DigitChars[i + 1]>>
    ELSE Append(NatChars(i \div 10), DigitChars[(i % 10) + 1])

IntChars(i) == IF i < 0 THEN <<"-">> \o NatChars(-i) ELSE NatChars(i)

\* position of the first "." of chars, 0 when there is none
DotAt(chars) ==
    IF \E i \in 1..Len(chars) : chars[i] = "."
    THEN CHOOSE i \in 1..Len(chars) :
             chars[i] = "." /\ \A j \in 1..(i - 1) : chars[j] # "."
    ELSE 0

Unsigned(chars) ==
    IF chars # <<>> /\ chars[1] \in {"-", "+"} THEN Tail(chars) ELSE chars

Negative(chars) == chars # <<>> /\ chars[1] = "-"

Signed(neg, i) == IF neg THEN -i ELSE i

RECURSIVE Pow10(_)
Pow10(k) == IF k = 0 THEN 1 ELSE 10 * Pow10(k - 1)

Abs(i) == IF i < 0 THEN -i ELSE i

\* k characters "0"
RECURSIVE Zeros(_)
Zeros(k) == IF k = 0 THEN <<>> ELSE <<"0">> \o Zeros(k - 1)

(***************************************************************************)
(* The constructors the coercion of line 107 calls, python_type(result),   *)
(* on the raw results the decoder can hold: str, int, float, bool, None.   *)
(* The texts of the model carry no whitespace, underscore or exponent.     *)
(***************************************************************************)
\* int(x)
IntOf(x) ==
    CASE x.t = "str" ->
           IF IsDigits(Unsigned(x.s))
           THEN Return(PyInt(Signed(Negative(x.s), DigitsValue(Unsigned(x.s)))))
           ELSE Raise("ValueError", "invalid literal for int() with base 10",
                      <<>>, <<>>)
      [] x.t = "float" ->
           IF IsFinite(x)
           THEN Return(PyInt(Signed(x.n < 0, Abs(x.n) \div Pow10(x.e))))
           ELSE IF x = PyNan
           THEN Raise("ValueError", "cannot convert float NaN to integer",
                      <<>>, <<>>)
           ELSE Raise("OverflowError",
                      "cannot convert float infinity to integer", <<>>, <<>>)
      [] x.t \in {"int", "bool"} -> Return(PyInt(x.n))
      [] OTHER ->
           Raise("TypeError", "int() argument must be a string or a number",
                 <<>>, <<x.t>>)

\* the float a decimal text [digits][.digits] denotes
DecimalOf(neg, u) ==
    LET d == DotAt(u)
        whole == IF d = 0 THEN u ELSE SubSeq(u, 1, d - 1)
        frac == IF d = 0 THEN <<>> ELSE SubSeq(u, d + 1, Len(u))
    IN  PyFloat(Signed(neg, DigitsValue(whole) * Pow10(Len(frac))
                            + DigitsValue(frac)),
                Len(frac))

IsDecimal(u) ==
    LET d == DotAt(u)
        whole == IF d = 0 THEN u ELSE SubSeq(u, 1, d - 1)
        frac == IF d = 0 THEN <<>> ELSE SubSeq(u, d + 1, Len(u))
    IN  /\ whole = <<>> \/ IsDigits(whole)
        /\ frac = <<>> \/ IsDigits(frac)
        /\ whole # <<>> \/ frac # <<>>

UpperChars ==
    <<"A", "B", "C", "D", "E", "F", "G", "H", "I", "J", "K", "L", "M", "N",
      "O", "P", "Q", "R", "S", "T", "U", "V", "W", "X", "Y", "Z">>

LowerChars ==
    <<"a", "b", "c", "d", "e", "f", "g", "h", "i", "j", "k", "l", "m", "n",
      "o", "p", "q", "r", "s", "t", "u", "v", "w", "x", "y", "z">>

\* chars.lower()
Lower(chars) ==
    [i \in 1..Len(chars) |->
       IF \E k \in 1..26 : UpperChars[k] = chars[i]
       THEN LowerChars[CHOOSE k \in 1..26 : UpperChars[k] = chars[i]]
       ELSE chars[i]]

\* float(x)
FloatOf(x) ==
    CASE x.t = "str" ->
           LET u == Lower(Unsigned(x.s))
           IN  IF IsDecimal(u) THEN Return(DecimalOf(Negative(x.s), u))
               ELSE IF u \in {<<"i", "n", "f">>,
                              <<"i", "n", "f", "i", "n", "i", "t", "y">>}
               THEN Return(IF Negative(x.s) THEN PyNegInf ELSE PyInf)
               ELSE IF u = <<"n", "a", "n">> THEN Return(PyNan)
               ELSE Raise("ValueError", "could not convert string to float",
                          <<>>, <<>>)
      [] x.t = "float" -> Return(x)
      [] x.t \in {"int", "bool"} -> Return(PyFloat(x.n, 0))
      [] OTHER ->
           Raise("TypeError", "float() argument must be a string or a number",
                 <<>>, <<x.t>>)

\* str(x)
StrOf(x) ==
    CASE x.t = "str" -> Return(x)
      [] x.t = "int" -> Return(PyStr(IntChars(x.n)))
      [] x.t = "float" ->
           IF ~IsFinite(x)
           THEN Return(PyStr((IF x.n < 0 THEN <<"-">> ELSE <<>>) \o x.s))
           ELSE LET whole == Abs(x.n) \div Pow10(x.e)
                    frac == Abs(x.n) % Pow10(x.e)
                    fchars == IF x.e = 0 THEN <<"0">>
                              ELSE LET c == NatChars(frac)
                                   IN  Zeros(x.e - Len(c)) \o c
                IN  Return(PyStr((IF x.n < 0 THEN <<"-">> ELSE <<>>)
                                 \o NatChars(whole) \o <<".">> \o fchars))
      [] x.t = "bool" ->
           Return(PyStr(IF x.n = 1 THEN <<"T", "r", "u", "e">>
                        ELSE <<"F", "a", "l", "s", "e">>))
      [] OTHER -> Return(PyStr(<<"N", "o", "n", "e">>))

\* bool(x)
BoolOf(x) ==
    CASE x.t = "str" -> Return(PyBool(x.s # <<>>))
      [] x.t = "float" -> Return(PyBool(~IsFinite(x) \/ x.n # 0))
      [] x.t \in {"int", "bool"} -> Return(PyBool(x.n # 0))
      [] OTHER -> Return(PyBool(FALSE))

\* typename(x) for the builtin scalar types
Construct(typename, x) ==
    CASE typename = "int" -> IntOf(x)
      [] typename = "float" -> FloatOf(x)
      [] typename = "str" -> StrOf(x)
      [] typename = "bool" -> BoolOf(x)

(***************************************************************************)
(* json.loads on a text without whitespace, escapes or exponents, and      *)
(* without a comma or colon inside a string or a nested container.         *)
(***************************************************************************)
\* position of the first c of chars, 0 when there is none
FirstAt(chars, c) ==
    IF \E i \in 1..Len(chars) : chars[i] = c
    THEN CHOOSE i \in 1..Len(chars) :
             chars[i] = c /\ \A j \in 1..(i - 1) : chars[j] # c
    ELSE 0

RECURSIVE Split(_, _)
Split(chars, sep) ==
    LET i == FirstAt(chars, sep)
    IN  IF i = 0 THEN <<chars>>
        ELSE <<SubSeq(chars, 1, i - 1)>>
             \o Split(SubSeq(chars, i + 1, Len(chars)), sep)

IsJsonString(chars) ==
    /\ Len(chars) >= 2
    /\ chars[1] = "\"" /\ chars[Len(chars)] = "\""
    /\ \A i \in 2..(Len(chars) - 1) : chars[i] # "\""

IsJsonInt(chars) ==
    LET u == IF Negative(chars) THEN Tail(chars) ELSE chars
    IN  IsDigits(u) /\ (Len(u) = 1 \/ u[1] # "0")

IsJsonFloat(chars) ==
    LET d == DotAt(chars)
    IN  /\ d > 0
        /\ IsJsonInt(SubSeq(chars, 1, d - 1))
        /\ IsDigits(SubSeq(chars, d + 1, Len(chars)))

JsonLiterals ==
    {<<"t", "r", "u", "e">>, <<"f", "a", "l", "s", "e">>,
     <<"n", "u", "l", "l">>, <<"N", "a", "N">>,
     <<"I", "n", "f", "i", "n", "i", "t", "y">>,
     <<"-", "I", "n", "f", "i", "n", "i", "t", "y">>}

RECURSIVE IsJson(_)
IsJson(chars) ==
    \/ chars \in JsonLiterals
    \/ IsJsonString(chars)
    \/ IsJsonInt(chars)
    \/ IsJsonFloat(chars)
    \/ /\ Len(chars) >= 2
       /\ chars[1] = "[" /\ chars[Len(chars)] = "]"
       /\ LET inner == SubSeq(chars, 2, Len(chars) - 1)
              items == Split(inner, ",")
          IN  inner = <<>> \/ \A i \in 1..Len(items) : IsJson(items[i])
    \/ /\ Len(chars) >= 2
       /\ chars[1] = "{" /\ chars[Len(chars)] = "}"
       /\ LET inner == SubSeq(chars, 2, Len(chars) - 1)
              items == Split(inner, ",")
          IN  \/ inner = <<>>
              \/ \A i \in 1..Len(items) :
                    LET c == FirstAt(items[i], ":")
                    IN  /\ c > 0
                        /\ IsJsonString(SubSeq(items[i], 1, c - 1))
                        /\ IsJson(SubSeq(items[i], c + 1, Len(items[i])))

\* json.loads(text): the parsed value, or JSONDecodeError (a ValueError)
JsonLoads(chars) ==
    IF ~IsJson(chars)
    THEN Raise("JSONDecodeError", "Expecting value", <<>>, <<>>)
    ELSE CASE chars = <<"t", "r", "u", "e">> -> Return(PyBool(TRUE))
           [] chars = <<"f", "a", "l", "s", "e">> -> Return(PyBool(FALSE))
           [] chars = <<"n", "u", "l", "l">> -> Return(PyNone)
           [] chars = <<"N", "a", "N">> -> Return(PyNan)
           [] chars = <<"I", "n", "f", "i", "n", "i", "t", "y">> ->
                Return(PyInf)
           [] chars = <<"-", "I", "n", "f", "i", "n", "i", "t", "y">> ->
                Return(PyNegInf)
           [] chars[1] = "\"" ->
                Return(PyStr(SubSeq(chars, 2, Len(chars) - 1)))
           [] chars[1] = "[" -> Return(PyList(chars))
           [] chars[1] = "{" -> Return(PyDict(chars))
           [] IsJsonInt(chars) ->
                Return(PyInt(Signed(Negative(chars),
                                    DigitsValue(Unsigned(chars)))))
           [] OTHER -> Return(DecimalOf(Negative(chars), Unsigned(chars)))

(***************************************************************************)
(* protos.TypedData: the populated field of the oneof 'data' and its       *)
(* value.  which = "absent" is the Python None in place of a message,      *)
(* which = "unset" a message with no field of the oneof populated.         *)
(***************************************************************************)
TypedDataKind == {"json", "string", "bytes", "int", "double", "http", "stream"}

TypedData(which, v) == [which |-> which, v |-> v]

NoData == TypedData("absent", PyNone)

\* data.WhichOneof('data')
WhichOneof(data) == IF data.which = "unset" THEN "None" ELSE data.which

\* python_type: a type, or a tuple of types
SingleType(typename) == [tuple |-> FALSE, types |-> <<typename>>]

TupleOf(typenames) == [tuple |-> TRUE, types |-> typenames]

\* isinstance(x, python_type)
IsInstance(x, python_type) ==
    \E i \in 1..Len(python_type.types) : IsSubclass(x.t, python_type.types[i])

\* lines 98-113: the type check and the coercion of a raw result
CheckResultType(result, python_type, context) ==
    IF IsInstance(result, python_type) THEN Return(result)
    ELSE IF python_type.tuple
    THEN Raise("ValueError", "unexpected value type in, expected one of",
               context, <<result.t>> \o python_type.types)
    ELSE LET c == Construct(python_type.types[1], result)
         IN  IF c.kind = "raise" /\ c.exc \in {"TypeError", "ValueError"}
             THEN Raise("ValueError", "cannot convert value of into",
                        context, <<python_type.types[1], c.msg>>)
             ELSE c

\* A variant of _decode_scalar_typed_data whose structure test is
\* isinstance(result, list): a parsed mapping reaches the type check.
_decode_scalar_typed_data_ListOnly(data, python_type, context) ==
    IF data = NoData THEN Return(PyNone)
    ELSE LET data_type == WhichOneof(data)
         IN  CASE data_type = "json" ->
                    LET r == JsonLoads(data.v.s)
                    IN  IF r.kind = "raise" THEN r
                        ELSE IF r.val.t = "list"
                        THEN Raise("ValueError",
                                   "unexpected data structure in expected scalar",
                                   context, <<>>)
                        ELSE CheckResultType(r.val, python_type, context)
               [] data_type \in {"string", "int", "double"} ->
                    CheckResultType(data.v, python_type, context)
               [] OTHER ->
                    Raise("ValueError", "unsupported type of", context,
                          <<data_type>>)

\* _BaseConverter._decode_scalar_typed_data
_decode_scalar_typed_data(data, python_type, context) ==
    IF data = NoData THEN Return(PyNone)
    ELSE LET data_type == WhichOneof(data)
         IN  CASE data_type = "json" ->
                    LET r == JsonLoads(data.v.s)
                    IN  IF r.kind = "raise" THEN r
                        ELSE IF r.val.t \in {"list", "dict"}
                        THEN Raise("ValueError",
                                   "unexpected data structure in expected scalar",
                                   context, <<>>)
                        ELSE CheckResultType(r.val, python_type, context)
               [] data_type \in {"string", "int", "double"} ->
                    CheckResultType(data.v, python_type, context)
               [] OTHER ->
                    Raise("ValueError", "unsupported type of", context,
                          <<data_type>>)

\* A variant of _decode_trigger_metadata_field that reads
\* trigger_metadata[field]: a missing key raises KeyError.
_decode_trigger_metadata_field_Subscript(trigger_metadata, field, python_type) ==
    IF field \notin DOMAIN trigger_metadata
    THEN Raise("KeyError", "", <<>>, <<field>>)
    ELSE IF trigger_metadata[field] = NoData THEN Return(PyNone)
    ELSE _decode_scalar_typed_data(trigger_metadata[field], python_type,
                               <<"field", field, "in trigger metadata">>)

\* _BaseConverter._decode_trigger_metadata_field; trigger_metadata is a
\* function from its keys to TypedData
_decode_trigger_metadata_field(trigger_metadata, field, python_type) ==
    LET data == IF field \in DOMAIN trigger_metadata
                THEN trigger_metadata[field] ELSE NoData
    IN  IF data = NoData THEN Return(PyNone)
        ELSE _decode_scalar_typed_data(data, python_type,
                                   <<"field", field, "in trigger metadata">>)

(***************************************************************************)
(* Binding kinds and converter classes.                                    *)
(***************************************************************************)
Binding ==
    {"blob", "blobTrigger", "http", "httpTrigger", "timerTrigger", "queue",
     "queueTrigger"}

\* binding=None of a class statement
NoBinding == "None"

(***************************************************************************)
(* The converter classes that are registered.  Their bodies are not part   *)
(* of meta.py, which declares only the abstract check_python_type,         *)
(* _from_proto and _to_proto; they follow the contract of a converter: a     *)
(* type check, a decode that declines with NotImplementedError the wire    *)
(* variants it does not handle and otherwise builds its native type, and   *)
(* an encode that declines the Python types it does not handle.            *)
(*   bases    the abstract converters the class derives from               *)
(*   accepts  the types check_python_type answers True for                 *)
(*   decodes  the TypedData fields _from_proto handles, native its result   *)
(*   field    a trigger metadata field _from_proto reads as an int          *)
(*   encodes  the Python types _to_proto handles                            *)
(***************************************************************************)
ConverterClasses ==
    {[name |-> "TimerRequestConverter", bases |-> {"InConverter"},
      accepts |-> {"TimerRequest"}, decodes |-> {"json"},
      native |-> "TimerRequest", field |-> "", encodes |-> {}],
     [name |-> "QueueMessageInConverter", bases |-> {"InConverter"},
      accepts |-> {"QueueMessage"}, decodes |-> {"json", "string", "bytes"},
      native |-> "QueueMessage", field |-> "DequeueCount", encodes |-> {}],
     [name |-> "HttpResponseConverter", bases |-> {"OutConverter"},
      accepts |-> {"HttpResponse", "str"}, decodes |-> {},
      native |-> "", field |-> "", encodes |-> {"HttpResponse", "str"}],
     [name |-> "BlobConverter", bases |-> {"InConverter", "OutConverter"},
      accepts |-> {"InputStream", "bytes", "str"},
      decodes |-> {"string", "bytes"}, native |-> "InputStream",
      field |-> "", encodes |-> {"str", "bytes"}],
     [name |-> "CheckOnlyConverter", bases |-> {},
      accepts |-> {"str"}, decodes |-> {}, native |-> "", field |-> "",
      encodes |-> {}]}

ClassNamed(name) == CHOOSE c \in ConverterClasses : c.name = name

\* cls.check_python_type(pytype)
check_python_type(name, pytype) == pytype \in ClassNamed(name).accepts

\* cls.from_proto(data, trigger_metadata)
from_proto(name, data, trigger_metadata) ==
    LET c == ClassNamed(name)
        f == IF c.field = "" THEN Return(PyNone)
             ELSE _decode_trigger_metadata_field(trigger_metadata, c.field,
                                             SingleType("int"))
    IN  IF WhichOneof(data) \notin c.decodes
        THEN Raise("NotImplementedError", "", <<>>, <<>>)
        ELSE IF f.kind = "raise" THEN f
        ELSE Return(PyObject(c.native))

\* cls.to_proto(obj): a TypedData message, held as a Python object
to_proto(name, obj) ==
    IF obj.t \notin ClassNamed(name).encodes
    THEN Raise("NotImplementedError", "", <<>>, <<>>)
    ELSE Return([t |-> "TypedData", n |-> 0, e |-> 0, s |-> <<obj.t>>])

(***************************************************************************)
(* The registry: _ConverterMeta.                                           *)
(***************************************************************************)
\* the dict d with d[key] = value
DictSet(d, key, value) ==
    [k \in DOMAIN d \cup {key} |-> IF k = key THEN value ELSE d[k]]

EmptyDict == [k \in {} |-> ""]

\* __new__ with its duplicate test on guard instead of _check_py_type
\* (raises), with or without the installs into the three tables
NewVariant(check, from, to, cls, binding, guard, raises, inCheck, inFrom) ==
    LET check1 == IF inCheck THEN DictSet(check, binding, cls.name)
                  ELSE check
        from1 == IF inFrom THEN DictSet(from, binding, cls.name) ELSE from
        to1 == IF "OutConverter" \in cls.bases
               THEN DictSet(to, binding, cls.name) ELSE to
    IN  IF binding = NoBinding
        THEN [tables |-> [check |-> check, from |-> from, to |-> to],
              out |-> Return(PyObject(cls.name))]
        ELSE IF raises /\ binding \in DOMAIN guard
        THEN [tables |-> [check |-> check1, from |-> from, to |-> to],
              out |-> Raise("RuntimeError",
                            "cannot register a converter: another converter has already been registered",
                            <<>>, <<binding>>)]
        ELSE IF inFrom /\ "InConverter" \in cls.bases
                /\ binding \in DOMAIN from
        THEN [tables |-> [check |-> check1, from |-> from, to |-> to],
              out |-> Raise("AssertionError", "", <<>>, <<>>)]
        ELSE IF "OutConverter" \in cls.bases /\ binding \in DOMAIN to
        THEN [tables |-> [check |-> check1, from |-> from1, to |-> to],
              out |-> Raise("AssertionError", "", <<>>, <<>>)]
        ELSE [tables |-> [check |-> check1, from |-> from1, to |-> to1],
              out |-> Return(PyObject(cls.name))]

\* the duplicate test reads _from_proto instead of _check_py_type
new_GuardOnFromProto(check, from, to, cls, binding) ==
    IF binding # NoBinding /\ binding \in DOMAIN from
    THEN [tables |-> [check |-> check, from |-> from, to |-> to],
          out |-> Raise("RuntimeError",
                        "cannot register a converter: another converter has already been registered",
                        <<>>, <<binding>>)]
    ELSE NewVariant(check, from, to, cls, binding, check, FALSE, TRUE,
                    "InConverter" \in cls.bases)

\* no duplicate test: a second registration overwrites check_python_type
new_Overwrites(check, from, to, cls, binding) ==
    NewVariant(check, from, to, cls, binding, check, FALSE, TRUE,
               "InConverter" \in cls.bases)

\* check_python_type is installed before the duplicate test
new_InstallsThenRaises(check, from, to, cls, binding) ==
    IF binding # NoBinding /\ binding \in DOMAIN check
    THEN [tables |-> [check |-> DictSet(check, binding, cls.name),
                      from |-> from, to |-> to],
          out |-> Raise("RuntimeError",
                        "cannot register a converter: another converter has already been registered",
                        <<>>, <<binding>>)]
    ELSE NewVariant(check, from, to, cls, binding, check, TRUE, TRUE,
                    "InConverter" \in cls.bases)

\* _from_proto is installed whatever the bases of the class
new_AlwaysInbound(check, from, to, cls, binding) ==
    NewVariant(check, from, to, cls, binding, check, TRUE, TRUE, TRUE)

\* check_python_type is never installed
new_SkipsCheckTable(check, from, to, cls, binding) ==
    NewVariant(check, from, to, cls, binding, check, TRUE, FALSE,
               "InConverter" \in cls.bases)

\* _ConverterMeta.__new__(mcls, name, bases, dct, binding=binding): the three
\* tables after the call and its outcome
__new__(check, from, to, cls, binding) ==
    LET same == [check |-> check, from |-> from, to |-> to]
        check1 == DictSet(check, binding, cls.name)
        from1 == IF "InConverter" \in cls.bases
                 THEN DictSet(from, binding, cls.name) ELSE from
        to1 == IF "OutConverter" \in cls.bases
               THEN DictSet(to, binding, cls.name) ELSE to
    IN  IF binding = NoBinding
        THEN [tables |-> same, out |-> Return(PyObject(cls.name))]
        ELSE IF binding \in DOMAIN check
        THEN [tables |-> same,
              out |-> Raise("RuntimeError",
                            "cannot register a converter: another converter has already been registered",
                            <<>>, <<binding>>)]
        ELSE IF "InConverter" \in cls.bases /\ binding \in DOMAIN from
        THEN [tables |-> [check |-> check1, from |-> from, to |-> to],
              out |-> Raise("AssertionError", "", <<>>, <<>>)]
        ELSE IF "OutConverter" \in cls.bases /\ binding \in DOMAIN to
        THEN [tables |-> [check |-> check1, from |-> from1, to |-> to],
              out |-> Raise("AssertionError", "", <<>>, <<>>)]
        ELSE [tables |-> [check |-> check1, from |-> from1, to |-> to1],
              out |-> Return(PyObject(cls.name))]

(***************************************************************************)
(* The dispatch functions.                                                 *)
(***************************************************************************)
\* check_bind_type_matches_py_type
check_bind_type_matches_py_type(check, binding, pytype) ==
    IF binding \notin DOMAIN check
    THEN Raise("TypeError",
               "bind type does not have a corresponding Python type",
               <<>>, <<binding>>)
    ELSE Return(PyBool(check_python_type(check[binding], pytype)))

\* from_incoming_proto without the inner try: a missing converter is a
\* KeyError
from_incoming_proto_KeyError(from, binding, val, trigger_metadata) ==
    IF binding \notin DOMAIN from
    THEN Raise("KeyError", "", <<>>, <<binding>>)
    ELSE LET r == from_proto(from[binding], val, trigger_metadata)
         IN  IF r.kind = "raise" /\ r.exc = "NotImplementedError"
             THEN Raise("TypeError",
                        "unable to decode incoming TypedData: unsupported combination of TypedData field and expected binding type",
                        <<>>, <<WhichOneof(val), binding>>)
             ELSE r

\* from_incoming_proto
from_incoming_proto(from, binding, val, trigger_metadata) ==
    LET r == IF binding \notin DOMAIN from
             THEN Raise("NotImplementedError", "", <<>>, <<>>)
             ELSE from_proto(from[binding], val, trigger_metadata)
    IN  IF r.kind = "raise" /\ r.exc = "NotImplementedError"
        THEN Raise("TypeError",
                   "unable to decode incoming TypedData: unsupported combination of TypedData field and expected binding type",
                   <<>>, <<WhichOneof(val), binding>>)
        ELSE r

\* to_outgoing_proto with the converter called outside the try: its
\* NotImplementedError reaches the caller
to_outgoing_proto_DeclinePropagates(to, binding, obj) ==
    IF binding \notin DOMAIN to
    THEN Raise("TypeError",
               "unable to encode outgoing TypedData: unsupported type for Python type",
               <<>>, <<binding, obj.t>>)
    ELSE to_proto(to[binding], obj)

\* to_outgoing_proto
to_outgoing_proto(to, binding, obj) ==
    LET r == IF binding \notin DOMAIN to
             THEN Raise("NotImplementedError", "", <<>>, <<>>)
             ELSE to_proto(to[binding], obj)
    IN  IF r.kind = "raise" /\ r.exc = "NotImplementedError"
        THEN Raise("TypeError",
                   "unable to encode outgoing TypedData: unsupported type for Python type",
                   <<>>, <<binding, obj.t>>)
        ELSE r

(***************************************************************************)
(* Inputs of the calls.                                                    *)
(***************************************************************************)
Alphabet == {"1", "2", ".", "-", "a", "\"", "[", "]"}

GeneratedTexts == UNION {[1..k -> Alphabet] : k \in 0..MaxTextLen}

PickedTexts ==
    {<<"1", "2", "3">>, <<"4", "2">>, <<"1", ".", "5">>, <<"a", "b", "c">>,
     <<"[", "1", ",", "2", ",", "3", "]">>,
     <<"{", "\"", "a", "\"", ":", "1", "}">>,
     <<"\"", "1", "2", "3", "\"">>,
     <<"t", "r", "u", "e">>, <<"n", "u", "l", "l">>,
     <<"I", "n", "f", "i", "n", "i", "t", "y">>, <<"N", "a", "N">>,
     <<"i", "n", "f">>}

Texts == GeneratedTexts \cup PickedTexts

ScalarData ==
    {NoData, TypedData("unset", PyNone)}
    \cup {TypedData("json", PyStr(x)) : x \in Texts}
    \cup {TypedData("string", PyStr(x)) : x \in Texts}
    \cup {TypedData("int", PyInt(i)) : i \in {-7, 0, 42}}
    \cup {TypedData("double", x) :
             x \in {PyFloat(15, 1), PyFloat(-25, 1), PyFloat(42, 0), PyInf,
                    PyNegInf, PyNan}}
    \cup {TypedData("bytes", PyObject("bytes")),
          TypedData("http", PyObject("RpcHttp")),
          TypedData("stream", PyObject("bytes"))}

PythonTypes ==
    {SingleType(x) : x \in {"int", "float", "str", "bool"}}
    \cup {TupleOf(<<"int">>), TupleOf(<<"str">>), TupleOf(<<"int", "float">>),
          TupleOf(<<"str", "int">>)}

FieldData ==
    {NoData, TypedData("json", PyStr(<<"4", "2">>)),
     TypedData("json", PyStr(<<"[", "1", ",", "2", ",", "3", "]">>)),
     TypedData("string", PyStr(<<"1", "2", "3">>)),
     TypedData("string", PyStr(<<"a", "b", "c">>)),
     TypedData("int", PyInt(42)), TypedData("double", PyInf),
     TypedData("bytes", PyObject("bytes"))}

FieldNames == {"id", "DequeueCount"}

\* the trigger metadata mappings over the field names
TriggerMetadatas ==
    UNION {[keys -> FieldData] : keys \in SUBSET FieldNames}

\* what the host hands to from_incoming_proto
IncomingData ==
    {TypedData("unset", PyNone), TypedData("json", PyStr(<<"1">>)),
     TypedData("string", PyStr(<<"a">>)),
     TypedData("http", PyObject("RpcHttp"))}

IncomingMetadatas ==
    {EmptyDict,
     [k \in {"DequeueCount"} |-> TypedData("int", PyInt(1))],
     [k \in {"DequeueCount"} |-> TypedData("string", PyStr(<<"a">>))]}

OutgoingObjects ==
    {PyStr(<<"a">>), PyObject("bytes"), PyObject("HttpResponse"), PyInt(1)}

PyTypes == {"str", "int", "InputStream", "QueueMessage", "HttpResponse"}

(***************************************************************************)
(* State: the three tables of _ConverterMeta; successes, the classes whose *)
(* registration for a binding returned, in order; ncalls, the register     *)
(* calls made; last, the call that has just run with its arguments and     *)
(* outcome, until its caller has taken the outcome.  Calls are synchronous *)
(* and made one after the other.                                           *)
(***************************************************************************)
NoCall == [op |-> "none", out |-> Return(PyNone)]

InitRegistry ==
    /\ _check_py_type = EmptyDict
    /\ _from_proto = EmptyDict
    /\ _to_proto = EmptyDict
    /\ successes = [b \in Binding |-> <<>>]
    /\ ncalls = 0

Init == InitRegistry /\ last = NoCall

tables == <<_check_py_type, _from_proto, _to_proto>>

\* class <name>(<bases>, binding=<binding>): ...
Register(cls, binding) ==
    /\ last = NoCall
    /\ ncalls < MaxRegisterCalls
    /\ LET r == __new__(_check_py_type, _from_proto, _to_proto, cls,
                                 binding)
       IN  /\ _check_py_type' = r.tables.check
           /\ _from_proto' = r.tables.from
           /\ _to_proto' = r.tables.to
           /\ successes' =
                 IF r.out.kind = "return" /\ binding # NoBinding
                 THEN [successes EXCEPT ![binding] = Append(@, cls.name)]
                 ELSE successes
           /\ last' = [op |-> "register", cls |-> cls.name,
                       binding |-> binding, out |-> r.out]
    /\ ncalls' = ncalls + 1

CheckBindType(binding, pytype) ==
    /\ last = NoCall
    /\ last' = [op |-> "check_bind_type_matches_py_type",
                binding |-> binding, pytype |-> pytype,
                out |-> check_bind_type_matches_py_type(_check_py_type, binding,
                                                   pytype)]
    /\ UNCHANGED <<tables, successes, ncalls>>

DecodeIncoming(binding, val, trigger_metadata) ==
    /\ last = NoCall
    /\ last' = [op |-> "from_incoming_proto", binding |-> binding,
                val |-> val, trigger_metadata |-> trigger_metadata,
                out |-> from_incoming_proto(_from_proto, binding, val,
                                          trigger_metadata)]
    /\ UNCHANGED <<tables, successes, ncalls>>

EncodeOutgoing(binding, obj) ==
    /\ last = NoCall
    /\ last' = [op |-> "to_outgoing_proto", binding |-> binding,
                obj |-> obj,
                out |-> to_outgoing_proto(_to_proto, binding, obj)]
    /\ UNCHANGED <<tables, successes, ncalls>>

\* the caller has the outcome of the call
Returned ==
    /\ last # NoCall
    /\ last' = NoCall
    /\ UNCHANGED <<tables, successes, ncalls>>

Next ==
    \/ Returned
    \/ \E cls \in ConverterClasses, binding \in Binding \cup {NoBinding} :
          Register(cls, binding)
    \/ \E binding \in Binding, pytype \in PyTypes :
          CheckBindType(binding, pytype)
    \/ \E binding \in Binding, val \in IncomingData,
          trigger_metadata \in IncomingMetadatas :
          DecodeIncoming(binding, val, trigger_metadata)
    \/ \E binding \in Binding, obj \in OutgoingObjects :
          EncodeOutgoing(binding, obj)

Spec == Init /\ [][Next]_vars

(***************************************************************************)
(* The scalar decoder alone: every input with every expected type.         *)
(***************************************************************************)
DecodeScalar(data, python_type) ==
    /\ last = NoCall
    /\ last' = [op |-> "_decode_scalar_typed_data", data |-> data,
                python_type |-> python_type,
                out |-> _decode_scalar_typed_data(data, python_type, <<"data">>)]
    /\ UNCHANGED <<tables, successes, ncalls>>

DecodeField(trigger_metadata, field, python_type) ==
    /\ last = NoCall
    /\ last' = [op |-> "_decode_trigger_metadata_field",
                trigger_metadata |-> trigger_metadata, field |-> field,
                python_type |-> python_type,
                out |-> _decode_trigger_metadata_field(trigger_metadata, field,
                                                   python_type)]
    /\ UNCHANGED <<tables, successes, ncalls>>

NextScalar ==
    \/ Returned
    \/ \E data \in ScalarData, python_type \in PythonTypes :
          DecodeScalar(data, python_type)
    \/ \E trigger_metadata \in TriggerMetadatas,
          field \in FieldNames \cup {"missing"},
          python_type \in PythonTypes :
          DecodeField(trigger_metadata, field, python_type)

SpecScalar == Init /\ [][NextScalar]_vars

(***************************************************************************)
(* Properties.                                                             *)
(***************************************************************************)
Registered(b) == successes[b] # <<>>

Declined(o) == o.kind = "raise" /\ o.exc = "NotImplementedError"

\* C1: a register call for a binding kind that already has a successful
\* registration raises the RuntimeError naming the kind, whatever the two
\* classes derive from; a register call fails only so; hence no kind ever
\* has two successful registrations.
C1_DuplicateRegistrationFails ==
    /\ \A b \in Binding : Len(successes[b]) <= 1
    /\ (last.op = "register" /\ last.out.kind = "raise") =>
          /\ last.out.exc = "RuntimeError"
          /\ last.out.detail = <<last.binding>>
          /\ last.binding \in Binding
          /\ Len(successes[last.binding]) = 1

\* a duplicate whose class declares other capabilities than the first was
\* rejected
C1_Witness ==
    /\ last.op = "register"
    /\ last.out.exc = "RuntimeError"
    /\ ClassNamed(last.cls).bases
         # ClassNamed(successes[last.binding][1]).bases

C3_EncodeFailureNormalized ==
    last.op = "to_outgoing_proto" =>
      LET missing == last.binding \notin DOMAIN _to_proto
          declined ==
            /\ ~missing
            /\ Declined(to_proto(_to_proto[last.binding], last.obj))
      IN  IF missing \/ declined
          THEN last.out =
                 Raise("TypeError",
                       "unable to encode outgoing TypedData: unsupported type for Python type",
                       <<>>, <<last.binding, last.obj.t>>)
          ELSE last.out = to_proto(_to_proto[last.binding], last.obj)

\* a registered outbound converter declined the object
C3_Witness ==
    /\ last.op = "to_outgoing_proto"
    /\ last.binding \in DOMAIN _to_proto
    /\ last.out.exc = "TypeError"

HasRawResult(data) ==
    \/ data.which \in {"string", "int", "double"}
    \/ /\ data.which = "json"
       /\ JsonLoads(data.v.s).kind = "return"
       /\ JsonLoads(data.v.s).val.t \notin {"list", "dict"}

RawResult(data) ==
    IF data.which = "json" THEN JsonLoads(data.v.s).val ELSE data.v

\* C5: a raw result that is an instance of the expected type(s) is returned
\* unchanged; otherwise a tuple of expected types gives the mismatch error
\* without coercion, and a single expected type gives the constructor's
\* value when the constructor returns and the 'cannot convert' error when it
\* raises; string "123" with int yields 123.
C5_CoercionPolicy ==
    (last.op = "_decode_scalar_typed_data" /\ HasRawResult(last.data)) =>
      LET raw == RawResult(last.data)
          c == Construct(last.python_type.types[1], raw)
      IN  /\ IsInstance(raw, last.python_type) => last.out = Return(raw)
          /\ (~IsInstance(raw, last.python_type) /\ last.python_type.tuple)
               => /\ last.out.kind = "raise"
                  /\ last.out.exc = "ValueError"
                  /\ last.out.msg = "unexpected value type in, expected one of"
          /\ (~IsInstance(raw, last.python_type) /\ ~last.python_type.tuple)
               => /\ c.kind = "return" => last.out = c
                  /\ c.kind = "raise" =>
                        /\ last.out.kind = "raise"
                        /\ last.out.exc = "ValueError"
                        /\ last.out.msg = "cannot convert value of into"
          /\ (last.data = TypedData("string", PyStr(<<"1", "2", "3">>))
               /\ last.python_type = SingleType("int"))
               => last.out = Return(PyInt(123))

\* C6: a json text that parses to a list or a dict is rejected for every
\* python_type, before the type check; one that parses to a scalar goes to
\* the type check as the raw result; "42" with int yields 42.
C6_StructuralJsonRejected ==
    (/\ last.op = "_decode_scalar_typed_data"
     /\ last.data.which = "json"
     /\ JsonLoads(last.data.v.s).kind = "return") =>
      LET parsed == JsonLoads(last.data.v.s).val
      IN  /\ parsed.t \in {"list", "dict"} =>
                last.out = Raise("ValueError",
                                 "unexpected data structure in expected scalar",
                                 <<"data">>, <<>>)
          /\ parsed.t \notin {"list", "dict"} =>
                last.out = CheckResultType(parsed, last.python_type,
                                           <<"data">>)
          /\ (last.data.v.s = <<"4", "2">>
               /\ last.python_type = SingleType("int"))
               => last.out = Return(PyInt(42))

\* a mapping was rejected where str was expected
C6_Witness ==
    /\ last.op = "_decode_scalar_typed_data"
    /\ last.data.which = "json"
    /\ JsonLoads(last.data.v.s) = Return(PyDict(last.data.v.s))
    /\ last.python_type = SingleType("str")
    /\ last.out.exc = "ValueError"

\* two outcomes that differ at most in the context their message carries
SameOutcome(a, b) ==
    /\ a.kind = b.kind /\ a.exc = b.exc /\ a.msg = b.msg
    /\ a.detail = b.detail /\ a.val = b.val

\* C7: _decode_trigger_metadata_field returns None for a field that is not
\* a key of the mapping, and otherwise has the outcome of
\* _decode_scalar_typed_data on the field's value: the same value, the same
\* failure.
C7_FieldDecodesAsScalar ==
    last.op = "_decode_trigger_metadata_field" =>
      IF last.field \notin DOMAIN last.trigger_metadata
      THEN last.out = Return(PyNone)
      ELSE SameOutcome(last.out,
                       _decode_scalar_typed_data(
                           last.trigger_metadata[last.field],
                           last.python_type, <<"data">>))

\* a field whose string was coerced to the int asked for
C7_Witness ==
    /\ last.op = "_decode_trigger_metadata_field"
    /\ last.field \in DOMAIN last.trigger_metadata
    /\ last.trigger_metadata[last.field].which = "string"
    /\ last.out = Return(PyInt(123))

\* C8: a step changes a table only if it is a register call that returns
\* for a binding kind: a rejected register call and the three dispatch
\* functions leave the three tables as they were.
C8_TablesChangeOnlyByRegister ==
    [][\/ /\ last'.op = "register"
          /\ last'.out.kind = "return"
          /\ last'.binding # NoBinding
       \/ UNCHANGED tables]_vars

\* a duplicate of another class was rejected and the first registration's
\* functions are still the ones in the tables
C8_Witness ==
    /\ last.op = "register"
    /\ last.out.kind = "raise"
    /\ last.cls # successes[last.binding][1]
    /\ _check_py_type[last.binding] = successes[last.binding][1]
    /\ last.binding \in DOMAIN _to_proto
    /\ _to_proto[last.binding] = successes[last.binding][1]

\* C9: a kind is in _check_py_type exactly when it has a successful
\* registration, in _from_proto exactly when that registration's class is
\* an InConverter and in _to_proto exactly when it is an OutConverter, each
\* entry being that class's function; binding=None installs nothing.
C9_TablesMatchRegistrations ==
    /\ DOMAIN _check_py_type = {b \in Binding : Registered(b)}
    /\ DOMAIN _from_proto =
         {b \in Binding : /\ Registered(b)
                          /\ "InConverter"
                               \in ClassNamed(successes[b][1]).bases}
    /\ DOMAIN _to_proto =
         {b \in Binding : /\ Registered(b)
                          /\ "OutConverter"
                               \in ClassNamed(successes[b][1]).bases}
    /\ \A b \in DOMAIN _check_py_type : _check_py_type[b] = successes[b][1]
    /\ \A b \in DOMAIN _from_proto : _from_proto[b] = successes[b][1]
    /\ \A b \in DOMAIN _to_proto : _to_proto[b] = successes[b][1]

\* an outbound-only kind, after a class statement of an inbound class with
\* binding=None
C9_Witness ==
    /\ last.op = "register"
    /\ last.binding = NoBinding
    /\ "InConverter" \in ClassNamed(last.cls).bases
    /\ \E b \in DOMAIN _to_proto : b \notin DOMAIN _from_proto

\* C10: every kind of _from_proto and of _to_proto is a kind of
\* _check_py_type, and no register call fails one of the two assertions.
C10_AssertionsNeverFail ==
    /\ DOMAIN _from_proto \cup DOMAIN _to_proto \subseteq DOMAIN _check_py_type
    /\ last.op = "register" => last.out.exc # "AssertionError"

\* an inbound class was rejected for a kind that is in _from_proto
C10_Witness ==
    /\ last.op = "register"
    /\ last.out.exc = "RuntimeError"
    /\ last.binding \in DOMAIN _from_proto
    /\ "InConverter" \in ClassNamed(last.cls).bases

====
